---- MODULE Spec2Model ----
(***************************************************************************)
(* download_and_organise_chess_assets.py: a sequential pipeline that       *)
(* creates the assets/ directory tree, fetches 36 piece images and 8       *)
(* sounds, writes 3 theme JSON files and 3 .qrc manifests, and verifies    *)
(* that the 47 expected files exist.                                       *)
(*                                                                         *)
(* The filesystem is the pair (dirs, files): dirs is the set of existing   *)
(* directories, files maps each existing file to its content, a sequence   *)
(* of chunks (lines).  A Python dict is a sequence of <<key, value>>       *)
(* pairs in insertion order.  Paths are strings, built as the code builds  *)
(* them.  The outcome of every call that touches the network or the        *)
(* filesystem is an input chosen by the environment.                       *)
(***************************************************************************)
EXTENDS Integers, Sequences, FiniteSets, TLC

VARIABLES pc, idx, dirs, files, missing, log, last, budget, run, start

vars == <<pc, idx, dirs, files, missing, log, last, budget, run, start>>

(***************************************************************************)
(* Bounds of the exploration.                                              *)
(***************************************************************************)
\* Calls that fail (by any error) in one run of main().
MaxFailures == 1
\* Chunks that reach the disk before a write that fails part-way.
MaxPartial == 1

(***************************************************************************)
(* Configuration tables.                                                   *)
(***************************************************************************)
PIECE_SETS ==
  << <<"classic", "cburnett">>, <<"modern", "alpha">>, <<"minimalist", "merida">> >>

SOUND_EFFECTS ==
  << <<"move.wav", "https://freesound.org/people/mh2o/sounds/351518/download/351518__mh2o__chess-move-on-alabaster.wav">>,
     <<"capture.wav", "https://freesound.org/people/InspectorJ/sounds/416179/download/416179__inspectorj__dropping-wood-light-a.wav">>,
     <<"check.wav", "https://freesound.org/people/plasterbrain/sounds/237422/download/237422__plasterbrain__game-obstacle.wav">>,
     <<"checkmate.wav", "https://freesound.org/people/jobro/sounds/60444/download/60444__jobro__dramatic-piano-2.wav">>,
     <<"start.wav", "https://freesound.org/people/InspectorJ/sounds/411460/download/411460__inspectorj__dropping-wood-medium-a.wav">>,
     <<"draw_offer.wav", "https://freesound.org/people/InspectorJ/sounds/411168/download/411168__inspectorj__dropping-wood-light-b.wav">>,
     <<"timeout.wav", "https://freesound.org/people/InspectorJ/sounds/403014/download/403014__inspectorj__dropping-wood-heavy-a.wav">>,
     <<"resign.wav", "https://freesound.org/people/InspectorJ/sounds/411167/download/411167__inspectorj__dropping-wood-heavy-b.wav">> >>

\* A theme record: its keys in the order of the table; scale is kept as its
\* decimal text.
ThemeRecord(name, light, dark, border, move, check, set, scale) ==
  [name |-> name,
   board |-> << <<"lightSquares", light>>, <<"darkSquares", dark>>,
                <<"border", border>>, <<"highlightMove", move>>,
                <<"highlightCheck", check>> >>,
   pieces |-> [set |-> set, scale |-> scale]]

THEME_DEFINITIONS ==
  << <<"classic.json",
       ThemeRecord("Classic", "#FFFFFF", "#769656", "#404040", "#BACA2B", "#FF0000", "classic", "0.9")>>,
     <<"modern.json",
       ThemeRecord("Modern", "#EEEED2", "#769656", "#404040", "#829769", "#C84147", "modern", "0.85")>>,
     <<"minimalist.json",
       ThemeRecord("Minimalist", "#DEE3E6", "#8CA2AD", "#404040", "#90A4AE", "#F44336", "minimalist", "0.9")>> >>

\* LICHESS_PIECE_URL.format(set=..., piece=...)
LICHESS_PIECE_URL(set, piece) ==
  "https://raw.githubusercontent.com/lichess-org/lila/master/public/piece/"
    \o set \o "/" \o piece \o ".svg"

\* The local table of download_piece_sets (local_name: lichess_name).
piece_names ==
  << <<"white_king", "wK">>, <<"white_queen", "wQ">>, <<"white_rook", "wR">>,
     <<"white_bishop", "wB">>, <<"white_knight", "wN">>, <<"white_pawn", "wP">>,
     <<"black_king", "bK">>, <<"black_queen", "bQ">>, <<"black_rook", "bR">>,
     <<"black_bishop", "bB">>, <<"black_knight", "bN">>, <<"black_pawn", "bP">> >>

\* The literal lists of create_resource_files and verify_downloads.
PieceKinds == <<"king", "queen", "rook", "bishop", "knight", "pawn">>

PieceColors == <<"white", "black">>

(***************************************************************************)
(* Helpers: dicts, paths, the filesystem.                                  *)
(***************************************************************************)
\* dict.keys()
Keys(d) == [k \in 1..Len(d) |-> d[k][1]]

\* pathlib: a / b, and str() of the result.
PathJoin(a, b) == a \o "/" \o b

Range(s) == {s[k] : k \in 1..Len(s)}

Min(a, b) == IF a < b THEN a ELSE b

\* The content of the file at p as a set: empty when there is no file.
FileState(fs, p) == IF p \in DOMAIN fs THEN {fs[p]} ELSE {}

\* Path.exists()
Exists(fs, ds, p) == p \in DOMAIN fs \/ p \in ds

\* The file at p holds exactly content (created or replaced).
Put(fs, p, content) == [q \in (DOMAIN fs) \cup {p} |-> IF q = p THEN content ELSE fs[q]]

\* The body the remote host serves for url, as the chunks copyfileobj copies.
RemoteBody(url) == <<"body of " \o url, "end of " \o url>>

(***************************************************************************)
(* Outcomes the environment chooses for one call.  kind "ok" is a call     *)
(* without error; n is the number of chunks that reached the file before   *)
(* the error (-1: the file was never opened).                              *)
(***************************************************************************)
Outcome(kind, n) == [kind |-> kind, n |-> n]

\* os.mkdir: done, or an OSError other than "exists" (permission denied...).
MkdirOutcomes == {Outcome("ok", 0), Outcome("oserror", -1)}

\* requests.get raises; raise_for_status raises; open raises; the copy of the
\* body raises after n chunks (a read or a write error); no error.
FetchOutcomes(body) ==
  {Outcome("ok", Len(body)), Outcome("request", -1), Outcome("status", -1),
   Outcome("open", -1)}
    \cup {Outcome("copy", n) : n \in 0..Min(MaxPartial, Len(body) - 1)}

\* open(path, 'w') raises; the write raises after n chunks; no error.
WriteOutcomes(content) ==
  {Outcome("ok", Len(content)), Outcome("open", -1)}
    \cup {Outcome("write", n) : n \in 0..Min(MaxPartial, Len(content) - 1)}

(***************************************************************************)
(* create_directory_structure                                              *)
(***************************************************************************)
\* The mkdir calls of create_directory_structure, in the order of its loops.
MkdirCalls ==
  LET base_dir == "assets"
      Call(path, parent, parents) == [path |-> path, parent |-> parent, parents |-> parents]
      pieces == PathJoin(base_dir, "pieces")
  IN  << Call(pieces, base_dir, TRUE) >>
        \o [t \in 1..Len(PIECE_SETS) |-> Call(PathJoin(pieces, Keys(PIECE_SETS)[t]), pieces, FALSE)]
        \o << Call(PathJoin(base_dir, "sounds"), base_dir, TRUE),
              Call(PathJoin(base_dir, "themes"), base_dir, TRUE) >>

\* Path.mkdir(parents=parents, exist_ok=True): the directories afterwards and
\* whether it raised.
mkdir(ds, fs, call, o) ==
  IF o.kind # "ok" THEN [dirs |-> ds, raised |-> TRUE]
  ELSE IF call.path \in ds THEN [dirs |-> ds, raised |-> FALSE]
  ELSE IF call.path \in DOMAIN fs THEN [dirs |-> ds, raised |-> TRUE]
  ELSE IF call.parent \in DOMAIN fs THEN [dirs |-> ds, raised |-> TRUE]
  ELSE IF call.parent \notin ds /\ ~call.parents THEN [dirs |-> ds, raised |-> TRUE]
  ELSE [dirs |-> ds \cup {call.parent, call.path}, raised |-> FALSE]

(***************************************************************************)
(* download_file                                                           *)
(***************************************************************************)
\* download_file with "return True" moved to a finally clause: True even when
\* the copy broke off.
download_file_true_on_copy_error(fs, ds, url, parent, destination, o) ==
  LET body == RemoteBody(url)
      Failed(f, n) == [files |-> f, ret |-> FALSE, raised |-> FALSE, written |-> n]
  IN  IF o.kind \in {"request", "status"} THEN Failed(fs, -1)
      ELSE IF o.kind = "open" \/ parent \notin ds \/ destination \in ds THEN Failed(fs, -1)
      ELSE IF o.kind = "copy"
      THEN [files |-> Put(fs, destination, SubSeq(body, 1, o.n)), ret |-> TRUE,
            raised |-> FALSE, written |-> o.n]
      ELSE [files |-> Put(fs, destination, body), ret |-> TRUE, raised |-> FALSE,
            written |-> Len(body)]

\* download_file with the destination opened in mode 'ab': the body is added
\* to what the file held.
download_file_append(fs, ds, url, parent, destination, o) ==
  LET body == RemoteBody(url)
      old == IF destination \in DOMAIN fs THEN fs[destination] ELSE <<>>
      Failed(f, n) == [files |-> f, ret |-> FALSE, raised |-> FALSE, written |-> n]
  IN  IF o.kind \in {"request", "status"} THEN Failed(fs, -1)
      ELSE IF o.kind = "open" \/ parent \notin ds \/ destination \in ds THEN Failed(fs, -1)
      ELSE IF o.kind = "copy"
      THEN Failed(Put(fs, destination, old \o SubSeq(body, 1, o.n)), o.n)
      ELSE [files |-> Put(fs, destination, old \o body), ret |-> TRUE, raised |-> FALSE,
            written |-> Len(body)]

\* download_file with "raise" at the end of its except clause: the error
\* leaves the function.
download_file_reraise(fs, ds, url, parent, destination, o) ==
  LET body == RemoteBody(url)
      Failed(f, n) == [files |-> f, ret |-> FALSE, raised |-> TRUE, written |-> n]
  IN  IF o.kind \in {"request", "status"} THEN Failed(fs, -1)
      ELSE IF o.kind = "open" \/ parent \notin ds \/ destination \in ds THEN Failed(fs, -1)
      ELSE IF o.kind = "copy" THEN Failed(Put(fs, destination, SubSeq(body, 1, o.n)), o.n)
      ELSE [files |-> Put(fs, destination, body), ret |-> TRUE, raised |-> FALSE,
            written |-> Len(body)]

\* download_file with the destination opened before the request is made: a
\* request or status error leaves it empty.
download_file_opens_first(fs, ds, url, parent, destination, o) ==
  LET body == RemoteBody(url)
      Failed(f, n) == [files |-> f, ret |-> FALSE, raised |-> FALSE, written |-> n]
  IN  IF o.kind = "open" \/ parent \notin ds \/ destination \in ds THEN Failed(fs, -1)
      ELSE IF o.kind \in {"request", "status"} THEN Failed(Put(fs, destination, <<>>), -1)
      ELSE IF o.kind = "copy" THEN Failed(Put(fs, destination, SubSeq(body, 1, o.n)), o.n)
      ELSE [files |-> Put(fs, destination, body), ret |-> TRUE, raised |-> FALSE,
            written |-> Len(body)]

\* download_file(url, destination): the files afterwards, the value returned,
\* whether an exception left the function, and the chunks written (-1: the
\* destination was not opened).  parent is the directory of destination.
download_file(fs, ds, url, parent, destination, o) ==
  LET body == RemoteBody(url)
      Failed(f, n) == [files |-> f, ret |-> FALSE, raised |-> FALSE, written |-> n]
  IN  IF o.kind \in {"request", "status"} THEN Failed(fs, -1)
      ELSE IF o.kind = "open" \/ parent \notin ds \/ destination \in ds THEN Failed(fs, -1)
      ELSE IF o.kind = "copy" THEN Failed(Put(fs, destination, SubSeq(body, 1, o.n)), o.n)
      ELSE [files |-> Put(fs, destination, body), ret |-> TRUE, raised |-> FALSE,
            written |-> Len(body)]

\* The calls of download_piece_sets with the destination named after the
\* lichess code instead of the local name.
PieceFetches_piece_code ==
  LET base_dir == "assets/pieces"
      np == Len(piece_names)
  IN  [k \in 1..(Len(PIECE_SETS) * np) |->
        LET theme_name == PIECE_SETS[((k - 1) \div np) + 1][1]
            set_name == PIECE_SETS[((k - 1) \div np) + 1][2]
            piece_code == piece_names[((k - 1) % np) + 1][2]
            theme_dir == PathJoin(base_dir, theme_name)
        IN  [url |-> LICHESS_PIECE_URL(set_name, piece_code),
             parent |-> theme_dir,
             destination |-> PathJoin(theme_dir, piece_code \o ".svg")]]

\* The calls of download_piece_sets: for each theme, for each piece name.
PieceFetches ==
  LET base_dir == "assets/pieces"
      np == Len(piece_names)
  IN  [k \in 1..(Len(PIECE_SETS) * np) |->
        LET theme_name == PIECE_SETS[((k - 1) \div np) + 1][1]
            set_name == PIECE_SETS[((k - 1) \div np) + 1][2]
            local_name == piece_names[((k - 1) % np) + 1][1]
            piece_code == piece_names[((k - 1) % np) + 1][2]
            theme_dir == PathJoin(base_dir, theme_name)
        IN  [url |-> LICHESS_PIECE_URL(set_name, piece_code),
             parent |-> theme_dir,
             destination |-> PathJoin(theme_dir, local_name \o ".svg")]]

\* The calls of download_sounds.
SoundFetches ==
  LET sounds_dir == "assets/sounds"
  IN  [k \in 1..Len(SOUND_EFFECTS) |->
        [url |-> SOUND_EFFECTS[k][2],
         parent |-> sounds_dir,
         destination |-> PathJoin(sounds_dir, SOUND_EFFECTS[k][1])]]

(***************************************************************************)
(* create_theme_files                                                      *)
(***************************************************************************)
\* json.dump(theme_data, f, indent=4), line by line.
JsonDump(rec) ==
  LET q == "\""
      Str(s) == q \o s \o q
      nb == Len(rec.board)
  IN  << "{",
         "    " \o Str("name") \o ": " \o Str(rec.name) \o ",",
         "    " \o Str("board") \o ": {" >>
        \o [k \in 1..nb |->
             "        " \o Str(rec.board[k][1]) \o ": " \o Str(rec.board[k][2])
               \o (IF k < nb THEN "," ELSE "")]
        \o << "    },",
              "    " \o Str("pieces") \o ": {",
              "        " \o Str("set") \o ": " \o Str(rec.pieces.set) \o ",",
              "        " \o Str("scale") \o ": " \o rec.pieces.scale,
              "    }",
              "}" >>

\* The write wrapped in "try ... except Exception: pass": no error leaves it.
write_file_swallow(fs, ds, parent, path, content, o) ==
  IF o.kind = "open" \/ parent \notin ds \/ path \in ds
  THEN [files |-> fs, raised |-> FALSE, written |-> -1]
  ELSE IF o.kind = "write"
  THEN [files |-> Put(fs, path, SubSeq(content, 1, o.n)), raised |-> FALSE, written |-> o.n]
  ELSE [files |-> Put(fs, path, content), raised |-> FALSE, written |-> Len(content)]

\* with open(path, 'w') as f: f.write(content): the files afterwards, whether
\* it raised, and the chunks written.
write_file(fs, ds, parent, path, content, o) ==
  IF o.kind = "open" \/ parent \notin ds \/ path \in ds
  THEN [files |-> fs, raised |-> TRUE, written |-> -1]
  ELSE IF o.kind = "write"
  THEN [files |-> Put(fs, path, SubSeq(content, 1, o.n)), raised |-> TRUE, written |-> o.n]
  ELSE [files |-> Put(fs, path, content), raised |-> FALSE, written |-> Len(content)]

\* The writes of create_theme_files.
ThemeWrites ==
  LET themes_dir == "assets/themes"
  IN  [k \in 1..Len(THEME_DEFINITIONS) |->
        [parent |-> themes_dir,
         path |-> PathJoin(themes_dir, THEME_DEFINITIONS[k][1]),
         content |-> JsonDump(THEME_DEFINITIONS[k][2])]]

(***************************************************************************)
(* create_resource_files                                                   *)
(***************************************************************************)
\* The two loops exchanged: for color in [...]: for piece in [...].
ColorPieceStems_color_first ==
  LET np == Len(PieceKinds)
  IN  [k \in 1..(Len(PieceColors) * np) |->
        PieceColors[((k - 1) \div np) + 1] \o "_" \o PieceKinds[((k - 1) % np) + 1]]

\* f"{color}_{piece}" over: for piece in [...]: for color in [...].
ColorPieceStems ==
  LET nc == Len(PieceColors)
  IN  [k \in 1..(Len(PieceKinds) * nc) |->
        PieceColors[((k - 1) % nc) + 1] \o "_" \o PieceKinds[((k - 1) \div nc) + 1]]

\* One <file> line of a manifest.
FileLine(path) == "        <file>" \o path \o "</file>"

QrcHeader(prefix) ==
  << "<!DOCTYPE RCC>", "<RCC version=\"1.0\">",
     "    <qresource prefix=\"/" \o prefix \o "\">" >>

QrcFooter == << "    </qresource>", "</RCC>" >>

\* pieces.qrc built over PIECE_SETS.values(): the lichess names of the sets.
pieces_qrc_set_names ==
  LET ns == Len(ColorPieceStems)
  IN  QrcHeader("pieces")
        \o [k \in 1..(Len(PIECE_SETS) * ns) |->
             FileLine("pieces/" \o PIECE_SETS[((k - 1) \div ns) + 1][2] \o "/"
                        \o ColorPieceStems[((k - 1) % ns) + 1] \o ".svg")]
        \o QrcFooter

pieces_qrc ==
  LET ns == Len(ColorPieceStems)
      themes == Keys(PIECE_SETS)
  IN  QrcHeader("pieces")
        \o [k \in 1..(Len(themes) * ns) |->
             FileLine("pieces/" \o themes[((k - 1) \div ns) + 1] \o "/"
                        \o ColorPieceStems[((k - 1) % ns) + 1] \o ".svg")]
        \o QrcFooter

sounds_qrc ==
  QrcHeader("sounds")
    \o [k \in 1..Len(SOUND_EFFECTS) |-> FileLine("sounds/" \o Keys(SOUND_EFFECTS)[k])]
    \o QrcFooter

themes_qrc ==
  QrcHeader("themes")
    \o [k \in 1..Len(THEME_DEFINITIONS) |-> FileLine("themes/" \o Keys(THEME_DEFINITIONS)[k])]
    \o QrcFooter

\* The three writes that end create_resource_files.
ResourceWrites ==
  << [parent |-> "assets", path |-> "assets/pieces.qrc", content |-> pieces_qrc],
     [parent |-> "assets", path |-> "assets/sounds.qrc", content |-> sounds_qrc],
     [parent |-> "assets", path |-> "assets/themes.qrc", content |-> themes_qrc] >>

(***************************************************************************)
(* verify_downloads                                                        *)
(***************************************************************************)
\* The paths verify_downloads tests, in the order it tests them.
VerifyPaths ==
  LET ns == Len(ColorPieceStems)
      themes == Keys(PIECE_SETS)
  IN  [k \in 1..(Len(themes) * ns) |->
        "assets/pieces/" \o themes[((k - 1) \div ns) + 1] \o "/"
          \o ColorPieceStems[((k - 1) % ns) + 1] \o ".svg"]
        \o [k \in 1..Len(SOUND_EFFECTS) |-> "assets/sounds/" \o Keys(SOUND_EFFECTS)[k]]
        \o [k \in 1..Len(THEME_DEFINITIONS) |-> "assets/themes/" \o Keys(THEME_DEFINITIONS)[k]]

\* missing_files with the "not" of the test dropped.
missing_files_present(fs, ds) ==
  LET Present(p) == Exists(fs, ds, p)
  IN  SelectSeq(VerifyPaths, Present)

\* missing_files of verify_downloads.
missing_files(fs, ds) ==
  LET Absent(p) == ~Exists(fs, ds, p)
  IN  SelectSeq(VerifyPaths, Absent)

(***************************************************************************)
(* main(): the calls of the five stages in program order.  Each entry      *)
(* names its stage and its position in the loop of the stage.              *)
(***************************************************************************)
Stage(name, calls) == [k \in 1..Len(calls) |-> [stage |-> name, at |-> k]]

\* main() with create_resource_files called before create_theme_files.
Program_manifests_first ==
  Stage("create_directory_structure", MkdirCalls)
    \o Stage("download_piece_sets", PieceFetches)
    \o Stage("download_sounds", SoundFetches)
    \o Stage("create_resource_files", ResourceWrites)
    \o Stage("create_theme_files", ThemeWrites)

Program ==
  Stage("create_directory_structure", MkdirCalls)
    \o Stage("download_piece_sets", PieceFetches)
    \o Stage("download_sounds", SoundFetches)
    \o Stage("create_theme_files", ThemeWrites)
    \o Stage("create_resource_files", ResourceWrites)

\* One call of the program on the tree (ds, fs) under outcome o: the tree
\* afterwards, whether the exception left the stage (and so main), and the
\* entry of the trace.
ApplyCall(ds, fs, c, o) ==
  LET Result(op, path, url, d, f, ret, raised, written) ==
        [op |-> op, path |-> path, url |-> url, dirs |-> d, files |-> f, ret |-> ret,
         raised |-> raised, written |-> written]
  IN  CASE c.stage = "create_directory_structure" ->
             LET call == MkdirCalls[c.at]
                 r == mkdir(ds, fs, call, o)
             IN  Result("mkdir", call.path, "", r.dirs, fs, ~r.raised, r.raised, -1)
        [] c.stage \in {"download_piece_sets", "download_sounds"} ->
             LET call == IF c.stage = "download_piece_sets" THEN PieceFetches[c.at]
                         ELSE SoundFetches[c.at]
                 r == download_file(fs, ds, call.url, call.parent, call.destination, o)
             IN  Result("download_file", call.destination, call.url, ds, r.files, r.ret,
                        r.raised, r.written)
        [] OTHER ->
             LET w == IF c.stage = "create_theme_files" THEN ThemeWrites[c.at]
                      ELSE ResourceWrites[c.at]
                 r == write_file(fs, ds, w.parent, w.path, w.content, o)
             IN  Result(IF c.stage = "create_theme_files" THEN "write_theme" ELSE "write_qrc",
                        w.path, "", ds, r.files, ~r.raised, r.raised, r.written)

\* The entry of the trace for a call that ended as r.
Event(r) ==
  [op |-> r.op, path |-> r.path, url |-> r.url, ret |-> r.ret, written |-> r.written]

\* The outcomes the environment can choose for call c.
Outcomes(c) ==
  CASE c.stage = "create_directory_structure" -> MkdirOutcomes
    [] c.stage = "download_piece_sets" -> FetchOutcomes(RemoteBody(PieceFetches[c.at].url))
    [] c.stage = "download_sounds" -> FetchOutcomes(RemoteBody(SoundFetches[c.at].url))
    [] c.stage = "create_theme_files" -> WriteOutcomes(ThemeWrites[c.at].content)
    [] OTHER -> WriteOutcomes(ResourceWrites[c.at].content)

\* The entries verify_downloads adds to the trace: one test per path.
VerifyEvents(fs, ds) ==
  [k \in 1..Len(VerifyPaths) |->
    [op |-> "exists", path |-> VerifyPaths[k], url |-> "",
     ret |-> Exists(fs, ds, VerifyPaths[k]), written |-> -1]]

(***************************************************************************)
(* The state machine.  pc is the stage main() is in, idx the position in   *)
(* Program of the next call.                                               *)
(***************************************************************************)
NoCall ==
  [op |-> "none", kind |-> "ok", path |-> "", url |-> "", ret |-> TRUE,
   raised |-> FALSE, before |-> {}, written |-> -1]

\* No assets/ directory at all.
EmptyTree == [dirs |-> {}, files |-> [p \in {} |-> <<>>]]

\* The tree an earlier complete run left, plus one file the tables do not name.
EarlierTree ==
  [dirs |-> {"assets"} \cup {MkdirCalls[k].path : k \in 1..Len(MkdirCalls)},
   files |-> [p \in Range(VerifyPaths)
                    \cup {ResourceWrites[k].path : k \in 1..Len(ResourceWrites)}
                    \cup {"assets/pieces/classic/stale.svg"} |-> <<"old">>]]

Init ==
  /\ pc = "create_directory_structure"
  /\ idx = 1
  /\ \E tree \in {EmptyTree, EarlierTree} :
       /\ dirs = tree.dirs
       /\ files = tree.files
       /\ start = tree
  /\ missing = <<>>
  /\ log = <<>>
  /\ last = NoCall
  /\ budget = MaxFailures
  /\ run = 1

\* The next call of main(), under an outcome the failure budget allows.  An
\* exception that leaves the stage ends the run.
Step ==
  \E o \in Outcomes(Program[idx]) :
    \E r \in {ApplyCall(dirs, files, Program[idx], o)} :
        /\ o.kind = "ok" \/ budget > 0
        /\ budget' = IF o.kind = "ok" THEN budget ELSE budget - 1
        /\ dirs' = r.dirs
        /\ files' = r.files
        /\ log' = Append(log, Event(r))
        /\ last' = [op |-> r.op, kind |-> o.kind, path |-> r.path, url |-> r.url,
                    ret |-> r.ret, raised |-> r.raised,
                    before |-> FileState(files, r.path), written |-> r.written]
        /\ IF r.raised THEN pc' = "crashed" /\ idx' = idx
           ELSE /\ idx' = idx + 1
                /\ pc' = IF idx < Len(Program) THEN Program[idx + 1].stage
                         ELSE "verify_downloads"

\* One mkdir of create_directory_structure.
CreateDirectory ==
  /\ pc = "create_directory_structure"
  /\ Step
  /\ UNCHANGED <<missing, run, start>>

\* One iteration of the loops of download_piece_sets.
DownloadPiece ==
  /\ pc = "download_piece_sets"
  /\ Step
  /\ UNCHANGED <<missing, run, start>>

\* One iteration of the loop of download_sounds.
DownloadSound ==
  /\ pc = "download_sounds"
  /\ Step
  /\ UNCHANGED <<missing, run, start>>

\* One iteration of the loop of create_theme_files.
CreateThemeFile ==
  /\ pc = "create_theme_files"
  /\ Step
  /\ UNCHANGED <<missing, run, start>>

\* One of the three writes that end create_resource_files.
WriteResourceFile ==
  /\ pc = "create_resource_files"
  /\ Step
  /\ UNCHANGED <<missing, run, start>>

\* verify_downloads, and the return of main().
VerifyDownloads ==
  /\ pc = "verify_downloads"
  /\ missing' = missing_files(files, dirs)
  /\ log' = log \o VerifyEvents(files, dirs)
  /\ last' = [NoCall EXCEPT !.op = "verify_downloads"]
  /\ pc' = "done"
  /\ UNCHANGED <<idx, dirs, files, budget, run, start>>

Next ==
  \/ CreateDirectory
  \/ DownloadPiece
  \/ DownloadSound
  \/ CreateThemeFile
  \/ WriteResourceFile
  \/ VerifyDownloads

\* One run of main().
Spec == Init /\ [][Next]_vars

(***************************************************************************)
(* A second run of main(), as one step: every call meets the outcome it    *)
(* met in the first run (script is the trace of the first run).            *)
(***************************************************************************)
\* The outcome that ends the k-th call as the script says it ended: without
\* error, with the destination never opened, or after script[k].written
\* chunks.  A call the first run never reached meets no error.
Replayed(script, k) ==
  IF k > Len(script) \/ script[k].op = "exists" \/ script[k].ret
  THEN Outcome("ok", 0)
  ELSE IF script[k].written < 0
  THEN Outcome(IF script[k].op = "mkdir" THEN "oserror" ELSE "open", -1)
  ELSE Outcome(IF script[k].op = "download_file" THEN "copy" ELSE "write",
               script[k].written)

RECURSIVE main(_, _, _)
\* main() from call k on, on the tree and trace of st.
main(st, script, k) ==
  IF st.raised THEN st
  ELSE IF k > Len(Program)
  THEN [st EXCEPT !.missing = missing_files(st.files, st.dirs),
                  !.log = st.log \o VerifyEvents(st.files, st.dirs)]
  ELSE LET r == ApplyCall(st.dirs, st.files, Program[k], Replayed(script, k))
       IN  main([dirs |-> r.dirs, files |-> r.files, raised |-> r.raised,
                 log |-> Append(st.log, Event(r)), missing |-> <<>>, at |-> k],
                script, k + 1)

\* main() is run again on the tree the first run left.
RunAgain ==
  /\ pc \in {"done", "crashed"}
  /\ run = 1
  /\ \E st \in {main([dirs |-> dirs, files |-> files, raised |-> FALSE, log |-> <<>>,
                       missing |-> <<>>, at |-> 0], log, 1)} :
         /\ dirs' = st.dirs
         /\ files' = st.files
         /\ log' = st.log
         /\ missing' = st.missing
         /\ pc' = IF st.raised THEN "crashed" ELSE "done"
         /\ idx' = IF st.raised THEN st.at ELSE Len(Program) + 1
  /\ run' = 2
  /\ start' = [dirs |-> dirs, files |-> files]
  /\ last' = [NoCall EXCEPT !.op = "main"]
  /\ UNCHANGED budget

NextTwice == Next \/ RunAgain

\* Two runs of main() in a row, every call ending the same way in both.
SpecTwice == Init /\ [][NextTwice]_vars

(***************************************************************************)
(* Vocabulary of the properties.                                           *)
(***************************************************************************)
\* The entries of the trace made by operation op, in order.
Entries(op) ==
  LET Is(e) == e.op = op
  IN  SelectSeq(log, Is)

FetchEntries == Entries("download_file")

\* The destinations of the fetches that returned False in this run.
FailedFetchPaths == {FetchEntries[k].path : k \in {j \in 1..Len(FetchEntries) : ~FetchEntries[j].ret}}

\* The destinations of the fetches that returned True in this run.
SucceededFetchPaths == {FetchEntries[k].path : k \in {j \in 1..Len(FetchEntries) : FetchEntries[j].ret}}

\* The <file> lines of a manifest: what lies between header and footer.
FileLines(content) == SubSeq(content, 4, Len(content) - 2)

ManifestsWritten == pc \in {"verify_downloads", "done"} /\ run = 1

NoDuplicates(seq) == Cardinality(Range(seq)) = Len(seq)

ThemeNames == <<"classic", "modern", "minimalist">>

SoundNames ==
  <<"move.wav", "capture.wav", "check.wav", "checkmate.wav", "start.wav",
    "draw_offer.wav", "timeout.wav", "resign.wav">>

ThemeFileNames == <<"classic.json", "modern.json", "minimalist.json">>

\* The order of the piece-name catalog of the fetcher.
FetcherStems ==
  <<"white_king", "white_queen", "white_rook", "white_bishop", "white_knight", "white_pawn",
    "black_king", "black_queen", "black_rook", "black_bishop", "black_knight", "black_pawn">>

\* The order of the loops of the manifest generator: piece, then colour.
GeneratorStems ==
  <<"white_king", "black_king", "white_queen", "black_queen", "white_rook", "black_rook",
    "white_bishop", "black_bishop", "white_knight", "black_knight", "white_pawn", "black_pawn">>

\* The <file> lines for every theme in order, the stems in the given order.
PieceLines(stems) ==
  [k \in 1..(Len(ThemeNames) * Len(stems)) |->
    "        <file>pieces/" \o ThemeNames[((k - 1) \div Len(stems)) + 1] \o "/"
      \o stems[((k - 1) % Len(stems)) + 1] \o ".svg</file>"]

SoundLines == [k \in 1..Len(SoundNames) |-> "        <file>sounds/" \o SoundNames[k] \o "</file>"]

ThemeLines ==
  [k \in 1..Len(ThemeFileNames) |-> "        <file>themes/" \o ThemeFileNames[k] \o "</file>"]

C2_AnyFilesystemErrorEndsRun ==
  last.kind \in {"oserror", "open", "write"} => pc = "crashed"

\* C2 amended: a filesystem error in mkdir, in the write of a theme file or
\* in the write of a manifest leaves main() and ends the run, and no later
\* call is made; any error inside download_file, the failure to open the
\* destination included, becomes a False result and the run goes on.
C2_ErrorsOutsideDownloadEndRun ==
  /\ (last.op \in {"mkdir", "write_theme", "write_qrc"} /\ last.kind # "ok")
       => (last.raised /\ pc = "crashed")
  /\ (last.op = "download_file" /\ last.kind # "ok")
       => (~last.raised /\ ~last.ret /\ pc # "crashed")
  /\ pc = "crashed"
       => (~ENABLED Next /\ ~log[Len(log)].ret /\ Entries("exists") = <<>>)

\* A theme file could not be written and the run has ended.
C2_Witness == pc = "crashed" /\ last.op = "write_theme" /\ last.kind = "write"

(***************************************************************************)
(* C3                                                                      *)
(***************************************************************************)
\* C3 as stated: pieces.qrc lists, per theme, the pieces in the order of the
\* piece-name catalog of the fetcher; sounds.qrc and themes.qrc follow their
\* tables.
C3_ManifestInFetcherOrder ==
  ManifestsWritten =>
    /\ FileLines(files["assets/pieces.qrc"]) = PieceLines(FetcherStems)
    /\ FileLines(files["assets/sounds.qrc"]) = SoundLines
    /\ FileLines(files["assets/themes.qrc"]) = ThemeLines

\* C3 amended: pieces.qrc lists, per theme in PIECE_SETS order, king, queen,
\* rook, bishop, knight, pawn, each white then black; sounds.qrc and
\* themes.qrc follow the order of their tables.
C3_ManifestInGeneratorOrder ==
  ManifestsWritten =>
    /\ FileLines(files["assets/pieces.qrc"]) = PieceLines(GeneratorStems)
    /\ FileLines(files["assets/sounds.qrc"]) = SoundLines
    /\ FileLines(files["assets/themes.qrc"]) = ThemeLines

\* The three manifests are written, over the ones an earlier run left.
C3_Witness == ManifestsWritten /\ pc = "verify_downloads" /\ start = EarlierTree

(***************************************************************************)
(* C4                                                                      *)
(***************************************************************************)
\* C4: once written, pieces.qrc lists exactly the 36 paths
\* pieces/<theme>/<local_name>.svg of the fetcher's catalogs, sounds.qrc the
\* 8 sound paths, themes.qrc the 3 theme paths, none twice, whatever the
\* fetches did and whatever was on disk.
C4_ManifestComplete ==
  ManifestsWritten =>
    LET p == FileLines(files["assets/pieces.qrc"])
        s == FileLines(files["assets/sounds.qrc"])
        t == FileLines(files["assets/themes.qrc"])
    IN  /\ Range(p) = {"        <file>pieces/" \o PIECE_SETS[i][1] \o "/" \o piece_names[j][1]
                         \o ".svg</file>" : i \in 1..Len(PIECE_SETS), j \in 1..Len(piece_names)}
        /\ Range(s) = Range(SoundLines)
        /\ Range(t) = Range(ThemeLines)
        /\ Len(p) = 36 /\ Len(s) = 8 /\ Len(t) = 3
        /\ NoDuplicates(p) /\ NoDuplicates(s) /\ NoDuplicates(t)

\* The manifests are written in a run in which a fetch failed.
C4_Witness == ManifestsWritten /\ FailedFetchPaths # {}

(***************************************************************************)
(* C5                                                                      *)
(***************************************************************************)
\* C5: no exception leaves download_file; a request or status error gives
\* False; True is returned only when no error occurred, and then the
\* destination holds exactly the response body, whatever it held before.
C5_DownloadFileContract ==
  last.op = "download_file" =>
    /\ ~last.raised /\ pc # "crashed"
    /\ (last.kind \in {"request", "status"} => ~last.ret)
    /\ (last.ret =>
          /\ last.kind = "ok"
          /\ FileState(files, last.path) = {RemoteBody(last.url)})

\* A fetch returned True over a file an earlier run left.
C5_Witness == last.op = "download_file" /\ last.ret /\ last.before = {<<"old">>}

(***************************************************************************)
(* C6                                                                      *)
(***************************************************************************)
\* C6: in a run that reaches its end the 47 paths written to (44 fetch
\* destinations, 3 theme files) are exactly the 47 paths the verifier
\* tests; if the run started on an empty tree and every fetch succeeded,
\* every such path holds a file and the missing list is empty.
C6_PathAgreement ==
  pc = "done" =>
    LET written == Range([k \in 1..Len(FetchEntries) |-> FetchEntries[k].path])
                     \cup Range([k \in 1..Len(Entries("write_theme")) |->
                                   Entries("write_theme")[k].path])
        tested == Range([k \in 1..Len(Entries("exists")) |-> Entries("exists")[k].path])
    IN  /\ written = tested
        /\ Cardinality(written) = 47
        /\ Len(FetchEntries) = 44 /\ Len(Entries("write_theme")) = 3
        /\ (start = EmptyTree /\ FailedFetchPaths = {})
             => (missing = <<>> /\ tested \subseteq DOMAIN files)

\* A run from an empty tree in which every fetch succeeded has ended.
C6_Witness == pc = "done" /\ run = 1 /\ start = EmptyTree /\ FailedFetchPaths = {}

(***************************************************************************)
(* C7                                                                      *)
(***************************************************************************)
\* C7: after a second run in which every call ended as in the first, the
\* tree holds the same directories, the same files and the same contents as
\* after the first run.
C7_Idempotent ==
  run = 2 => (files = start.files /\ dirs = start.dirs)

\* A second run has ended after a first run in which a fetch broke off
\* part-way.
C7_Witness ==
  /\ run = 2
  /\ pc = "done"
  /\ \E k \in 1..Len(FetchEntries) : ~FetchEntries[k].ret /\ FetchEntries[k].written >= 0

(***************************************************************************)
(* C8                                                                      *)
(***************************************************************************)
\* The k-th call of download_file that the catalogs prescribe.
ExpectedFetch(k) ==
  IF k <= 36
  THEN [url |-> LICHESS_PIECE_URL(PIECE_SETS[((k - 1) \div 12) + 1][2],
                                  piece_names[((k - 1) % 12) + 1][2]),
        path |-> "assets/pieces/" \o ThemeNames[((k - 1) \div 12) + 1] \o "/"
                   \o FetcherStems[((k - 1) % 12) + 1] \o ".svg"]
  ELSE [url |-> SOUND_EFFECTS[k - 36][2], path |-> "assets/sounds/" \o SoundNames[k - 36]]

\* C8: whatever the fetches do, a run stops early only by a filesystem error
\* outside download_file; a run that reaches its end has called
\* download_file exactly 44 times, once per (theme, piece) and per sound, in
\* catalog order, and has then written the 3 theme files and the 3
\* manifests and run the verifier; and every run ends: until it has, a next
\* call is always possible, and each call made is one of the 56 of the
\* program, made once.
C8_NoRetryNoEarlyStop ==
  /\ pc = "crashed" => (last.raised /\ last.op \in {"mkdir", "write_theme", "write_qrc"})
  /\ pc = "done" =>
       /\ Len(FetchEntries) = 44
       /\ \A k \in 1..44 :
            /\ FetchEntries[k].url = ExpectedFetch(k).url
            /\ FetchEntries[k].path = ExpectedFetch(k).path
       /\ Len(Entries("write_theme")) = 3
       /\ Len(Entries("write_qrc")) = 3
       /\ Len(Entries("exists")) = 47
  /\ pc \notin {"done", "crashed"} =>
       (ENABLED Next /\ Len(log) = idx - 1 /\ idx <= 57)

\* A run in which a fetch failed has reached its end.
C8_Witness == pc = "done" /\ FailedFetchPaths # {} /\ Len(FetchEntries) = 44

(***************************************************************************)
(* C9                                                                      *)
(***************************************************************************)
StageRank(op) ==
  CASE op = "mkdir" -> 1
    [] op = "download_file" -> 2
    [] op = "write_theme" -> 3
    [] op = "write_qrc" -> 4
    [] OTHER -> 5

\* C9: the trace of a run is ordered by stage (mkdir, fetches, theme files,
\* manifests, verifier); the first fetch comes after all 6 directories are
\* made, the first manifest after all 44 fetches and 3 theme files, the
\* verifier after the 3 manifests, and the verifier's list is the set of
\* tested paths absent from the tree the earlier stages left.
C9_StageOrder ==
  /\ \A k \in 1..(Len(log) - 1) : StageRank(log[k].op) <= StageRank(log[k + 1].op)
  /\ FetchEntries # <<>> =>
       /\ Len(Entries("mkdir")) = 6
       /\ {"assets", "assets/pieces", "assets/pieces/classic", "assets/pieces/modern",
           "assets/pieces/minimalist", "assets/sounds", "assets/themes"} \subseteq dirs
  /\ Entries("write_qrc") # <<>> =>
       (Len(FetchEntries) = 44 /\ Len(Entries("write_theme")) = 3)
  /\ Entries("exists") # <<>> =>
       /\ Len(Entries("write_qrc")) = 3
       /\ \A k \in 1..3 : Entries("write_qrc")[k].ret
       /\ Range(missing) = {q \in Range(VerifyPaths) : q \notin DOMAIN files}

\* The verifier has run after all earlier stages, from an empty tree.
C9_Witness == pc = "done" /\ run = 1 /\ start = EmptyTree /\ Len(log) = 56 + 47

(***************************************************************************)
(* C10                                                                     *)
(***************************************************************************)
\* C10 as stated: when download_file returns False the destination is as it
\* was before the call.
C10_FailedFetchLeavesFile ==
  (last.op = "download_file" /\ ~last.ret) => FileState(files, last.path) = last.before

\* C10 amended: when download_file returns False and the destination was
\* never opened (request, status or open error) the destination is as it
\* was before the call; when the copy of the body broke off, the destination
\* exists and holds the chunks copied so far, a proper prefix of the body,
\* in place of anything it held before.
C10_FailedFetchLeavesFileUnlessOpened ==
  (last.op = "download_file" /\ ~last.ret) =>
    IF last.written = -1
    THEN /\ last.kind \in {"request", "status", "open"}
         /\ FileState(files, last.path) = last.before
    ELSE /\ last.kind = "copy"
         /\ last.written < Len(RemoteBody(last.url))
         /\ FileState(files, last.path) = {SubSeq(RemoteBody(last.url), 1, last.written)}

\* A fetch failed on its request over a file an earlier run left.
C10_Witness ==
  last.op = "download_file" /\ ~last.ret /\ last.kind = "request" /\ last.before = {<<"old">>}

====
